---- MODULE Spec2Model ----
(***************************************************************************)
(* Rclone Delta GUI (the_code.py): the delta tree (DeltaTreeWidget), the   *)
(* size formatting, the config validation and the MainWindow handlers      *)
(* compare_directories and run_full_sync, as a state machine.              *)
(*                                                                         *)
(* Conventions of the model                                                *)
(*  - a text made of characters the code inspects (a path typed by the     *)
(*    user, the output of "rclone config show") is a sequence of           *)
(*    one-character strings;                                               *)
(*  - a relative path of a listing is the sequence of its '/'-separated    *)
(*    segments, that is path.split('/');                                   *)
(*  - a number the code holds as a float is an integer count of            *)
(*    hundredths of a byte (20 bytes = 2000);                              *)
(*  - the text of the Size column is <<>> when empty and <<h, u>> for the  *)
(*    text "h/100 UNIT" with UNIT the u-th of B, KB, MB, GB, TB.           *)
(***************************************************************************)
EXTENDS Integers, Sequences, FiniteSets, TLC

VARIABLES
    tree,        \* DeltaTreeWidget: the items below invisibleRootItem(), in creation order
    add_calls,   \* the add_item calls made on the tree since it was last cleared
    config_file, source_config, dest_config, source_path, dest_path,
                 \* the MainWindow fields of these names
    source_config_combo, dest_config_combo,
                 \* the two QComboBox: their items and current text
    source_path_input, dest_path_input,
                 \* the two QLineEdit: their text
    source_items, dest_items,
                 \* what the listing provider answers (SpecCompare)
    compared_ok, \* the locations of the comparisons that ran to their end
    last_call,   \* the handler that ran last: the commands it issued, the
                 \* message boxes it showed, the user's reply, what it did
    v_config_file, v_config_name, v_store, v_return
                 \* validate_rclone_config: its arguments, the answer of
                 \* "rclone config show", and what the call did

treeVars == <<tree, add_calls>>

windowVars ==
    <<config_file, source_config, dest_config, source_path, dest_path,
      source_config_combo, dest_config_combo, source_path_input,
      dest_path_input, compared_ok, last_call>>

providerVars == <<source_items, dest_items>>

validateVars == <<v_config_file, v_config_name, v_store, v_return>>

vars == <<treeVars, windowVars, providerVars, validateVars>>

----------------------------------------------------------------------------
(* Bounds of the model *)

\* add_item calls made directly on one tree (SpecTree)
MaxItems == 3

\* entries of one listing (SpecCompare)
MaxEntries == 2

\* the paths inserted directly (SpecTree), as path.split('/'): a file and a
\* directory of the same name (a, a/b), siblings below a shared prefix
\* (a/b, a/c) and a deep path (a/b/c)
TreePaths ==
    {<<"a">>, <<"a", "b">>, <<"a", "c">>, <<"a", "b", "c">>}

\* byte sizes of the leaves inserted directly (SpecTree): one below 1024, one not
TreeSizes == {20, 2048}

\* the statuses inserted directly (SpecTree); add_item only stores the status
TreeStatuses == {"New", "Deleted"}

----------------------------------------------------------------------------
(* format_size *)

\* f"{x:.2f}" of the exact quotient n/d: the nearest hundredth, ties to even
\* (n is in hundredths, so the result is n/d rounded to an integer).  The
\* float the code formats is this quotient exactly when the size is a whole
\* number of bytes (a division by 1024.0 is exact); the totals of
\* calculate_directory_sizes are sums of parsed texts, and the sizes of the
\* model keep them away from a tie, where a float's last bit would decide.
RoundHalfEven(n, d) ==
    LET q == n \div d
        r == n % d
    IN  IF 2 * r < d THEN q
        ELSE IF 2 * r > d THEN q + 1
        ELSE IF q % 2 = 0 THEN q ELSE q + 1

\* what format_size returns when the loop over the five units ends: None
FormatNone == <<-1, 5>>

\* the loop of format_size: n/den is the value of `size` when the unit `unit`
\* is tried (size has been divided by 1024.0 unit times), n in hundredths.
RECURSIVE format_size_loop(_, _, _)
format_size_loop(n, den, unit) ==
    IF unit > 4 THEN FormatNone
    ELSE IF n \div den < 102400
         THEN <<RoundHalfEven(n, den), unit>>
         ELSE format_size_loop(n, den * 1024, unit + 1)

\* format_size(size), size given in hundredths of a byte
format_size(size) == format_size_loop(size, 1, 0)

\* float(size_text.split()[0]): the number of the text, its unit dropped
\* (in hundredths)
parse_size_text(text) == text[1]

----------------------------------------------------------------------------
(* DeltaTreeWidget *)

\* A QTreeWidgetItem: its parent (0 is invisibleRootItem(), otherwise the
\* index of the parent item), text(0), text(1), text(2).
Item(parent, name, status, size) ==
    [parent |-> parent, name |-> name, status |-> status, size |-> size]

\* the children of `item` in child order (QTreeWidgetItem(parent) appends)
ChildIndexes(t, item) == {j \in 1..Len(t) : t[j].parent = item}

childCount(t, item) == Cardinality(ChildIndexes(t, item))

Min(S) == CHOOSE x \in S : \A y \in S : x <= y

\* item.child(i), i from 0: the child with i children before it
child(t, item, i) ==
    CHOOSE j \in ChildIndexes(t, item) :
        Cardinality({k \in ChildIndexes(t, item) : k < j}) = i

\* add_item from segment i of parts on, below `parent`
RECURSIVE add_item_loop(_, _, _, _, _, _)
add_item_loop(t, parent, parts, i, status, size) ==
    IF i = Len(parts)
    THEN Append(t, Item(parent, parts[i], status, format_size(size * 100)))
    ELSE LET found == {j \in ChildIndexes(t, parent) : t[j].name = parts[i]}
         IN  IF found # {}
             THEN add_item_loop(t, Min(found), parts, i + 1, status, size)
             ELSE LET t2 == Append(t, Item(parent, parts[i], "", <<>>))
                  IN  add_item_loop(t2, Len(t2), parts, i + 1, status, size)

\* add_item without the search among the children: every intermediate
\* segment gets a new item
RECURSIVE add_item_never_reusing(_, _, _, _)
add_item_never_reusing(t, parts, status, size) ==
    IF Len(parts) = 1
    THEN Append(t, Item(0, parts[1], status, format_size(size * 100)))
    ELSE LET t2 == add_item_never_reusing(t, SubSeq(parts, 1, Len(parts) - 1), "", 0)
         IN  Append([t2 EXCEPT ![Len(t2)].size = <<>>],
                    Item(Len(t2), parts[Len(parts)], status, format_size(size * 100)))

\* DeltaTreeWidget.add_item(path, status, size); parts = path.split('/')
add_item(t, parts, status, size) == add_item_loop(t, 0, parts, 1, status, size)

\* recurse(item) of calculate_directory_sizes: the tree after it and the
\* total it returns (hundredths).  recurse_loop is its for loop from child
\* number i on, with total_size so far.
RECURSIVE recurse(_, _)
RECURSIVE recurse_loop(_, _, _, _)
recurse_loop(t, item, i, total_size) ==
    IF i >= childCount(t, item)
    THEN [tree |-> t, total |-> total_size]
    ELSE LET c == child(t, item, i)
         IN  IF childCount(t, c) > 0
             THEN LET r  == recurse(t, c)
                      t2 == [r.tree EXCEPT ![c].size = format_size(r.total)]
                  IN  recurse_loop(t2, item, i + 1, total_size + r.total)
             ELSE IF t[c].size # <<>>
                  THEN recurse_loop(t, item, i + 1,
                                    total_size + parse_size_text(t[c].size))
                  ELSE recurse_loop(t, item, i + 1, total_size)

recurse(t, item) == recurse_loop(t, item, 0, 0)

\* calculate_directory_sizes adding each total to the size the directory
\* already shows
calculate_directory_sizes_accumulating(t) ==
    LET after == recurse(t, 0).tree
    IN  [j \in 1..Len(t) |->
            IF childCount(t, j) > 0 /\ t[j].size # <<>>
            THEN [after[j] EXCEPT !.size =
                     format_size(parse_size_text(t[j].size)
                                 + parse_size_text(after[j].size))]
            ELSE after[j]]

\* DeltaTreeWidget.calculate_directory_sizes()
calculate_directory_sizes(t) == recurse(t, 0).tree

----------------------------------------------------------------------------
(* Values *)

\* Python's None in a field that otherwise holds a str
None == "<None>"

\* Python's None in a field that otherwise holds a text
NonePath == <<"<None>">>

\* bool(x) of a str or None
TruthyStr(x) == x # None /\ x # ""

\* bool(x) of a text or None
TruthyText(x) == x # NonePath /\ x # <<>>

EndsWith(text, suffix) ==
    /\ Len(text) >= Len(suffix)
    /\ SubSeq(text, Len(text) - Len(suffix) + 1, Len(text)) = suffix

\* sub in text
Contains(text, sub) ==
    \E i \in 0..(Len(text) - Len(sub)) : SubSeq(text, i + 1, i + Len(sub)) = sub

ensure_trailing_slash(path) ==
    IF EndsWith(path, <<"/">>) \/ EndsWith(path, <<":", "\\">>)
    THEN path
    ELSE path \o <<"/">>

----------------------------------------------------------------------------
(* The rclone commands.  A command is its name and its arguments (texts);  *)
(* the answer of the process is drawn by the caller of the model: "ok"     *)
(* (exit code 0, with its stdout), "exit" (another exit code, with its     *)
(* stderr) or "oserror" (Popen raises).  A result carries the commands     *)
(* passed to Popen.                                                        *)

Command(op, args) == [op |-> op, args |-> args]

\* what a call returns or raises, and the processes it started
Returned(value, commands) ==
    [raised |-> FALSE, value |-> value, error |-> <<>>, commands |-> commands]

Raised(error, commands) ==
    [raised |-> TRUE, value |-> <<>>, error |-> error, commands |-> commands]

\* run_rclone_command with the command run twice when it fails
run_rclone_command_retrying(command, has_none, answer) ==
    IF has_none THEN Raised(<<"expected str, bytes or os.PathLike object, not NoneType">>,
                            <<command>>)
    ELSE IF answer.kind = "oserror" THEN Raised(<<answer.stderr>>, <<command, command>>)
    ELSE IF answer.kind = "exit"
         THEN Raised(<<"rclone command failed: ", answer.stderr>>, <<command, command>>)
         ELSE Returned(answer.stdout, <<command>>)

\* run_rclone_command(command); has_none: an argument of the command is None
run_rclone_command(command, has_none, answer) ==
    IF has_none THEN Raised(<<"expected str, bytes or os.PathLike object, not NoneType">>,
                            <<command>>)
    ELSE IF answer.kind = "oserror" THEN Raised(<<answer.stderr>>, <<command>>)
    ELSE IF answer.kind = "exit"
         THEN Raised(<<"rclone command failed: ", answer.stderr>>, <<command>>)
         ELSE Returned(answer.stdout, <<command>>)

\* get_rclone_configs(config_file): the stdout of "rclone config dump" is
\* modelled by the keys json.loads finds in it
get_rclone_configs(file, answer) ==
    run_rclone_command(Command("config dump", <<<<file>>>>), file = None, answer)

TypeDeclaration == <<"t", "y", "p", "e", " ", "=">>

\* validate_rclone_config without its try/except
validate_rclone_config_raising(file, name, answer) ==
    IF name = "local" THEN Returned(TRUE, <<>>)
    ELSE LET r == run_rclone_command(
                      Command("config show", <<<<name>>, <<file>>>>),
                      file = None, answer)
         IN  IF r.raised THEN r
             ELSE Returned(Contains(r.value, TypeDeclaration), r.commands)

\* validate_rclone_config(config_file, config_name)
validate_rclone_config(file, name, answer) ==
    IF name = "local" THEN Returned(TRUE, <<>>)
    ELSE LET r == run_rclone_command(
                      Command("config show", <<<<name>>, <<file>>>>),
                      file = None, answer)
         IN  IF r.raised THEN Returned(FALSE, r.commands)
             ELSE Returned(Contains(r.value, TypeDeclaration), r.commands)

\* run_rclone_lsjson(path, config_file, config_name): the stdout of the
\* listing is modelled by the list json.loads returns, or, with the answer
\* "json", by the JSONDecodeError it raises.
run_rclone_lsjson(path, file, name, answer) ==
    LET location == IF TruthyStr(file) /\ TruthyStr(name)
                    THEN <<name, ":">> \o path
                    ELSE path
        command == Command("lsjson", <<location>>)
    IN  IF answer.kind = "oserror" THEN Raised(<<answer.stderr>>, <<command>>)
        ELSE IF answer.kind = "exit"
             THEN Raised(<<"rclone lsjson command failed: ", answer.stderr>>,
                         <<command>>)
        ELSE IF answer.kind = "json" THEN Raised(<<answer.stderr>>, <<command>>)
        ELSE Returned(answer.stdout, <<command>>)

----------------------------------------------------------------------------
(* MainWindow.  A handler is an operator from the window before the call   *)
(* to the window after it; the window is the record W of the variables.    *)
(* The two status labels and the fast-list checkbox are left out, and     *)
(* with the labels the validate_config calls that a change of a combo      *)
(* triggers: no handler below reads the labels, and the checkbox only adds *)
(* --fast-list to the listing command.                                     *)

W ==
    [tree |-> tree, add_calls |-> add_calls, config_file |-> config_file,
     source_config |-> source_config, dest_config |-> dest_config,
     source_path |-> source_path, dest_path |-> dest_path,
     source_config_combo |-> source_config_combo,
     dest_config_combo |-> dest_config_combo,
     source_path_input |-> source_path_input,
     dest_path_input |-> dest_path_input,
     compared_ok |-> compared_ok, last_call |-> last_call]

Becomes(w) ==
    /\ tree' = w.tree
    /\ add_calls' = w.add_calls
    /\ config_file' = w.config_file
    /\ source_config' = w.source_config
    /\ dest_config' = w.dest_config
    /\ source_path' = w.source_path
    /\ dest_path' = w.dest_path
    /\ source_config_combo' = w.source_config_combo
    /\ dest_config_combo' = w.dest_config_combo
    /\ source_path_input' = w.source_path_input
    /\ dest_path_input' = w.dest_path_input
    /\ compared_ok' = w.compared_ok
    /\ last_call' = w.last_call

\* a QMessageBox: warning, critical or information, with its text in pieces
MessageBox(icon, title, text) == [icon |-> icon, title |-> title, text |-> text]

\* the record of a handler's call: nothing issued, shown or done yet
Call(handler) ==
    [handler |-> handler, commands |-> <<>>, answers |-> <<>>,
     boxes |-> <<>>, reply |-> "",
     cleared |-> FALSE, aggregated |-> FALSE, saved |-> FALSE]

\* the call wrote down: these commands were passed to Popen and the process
\* answered so
Issue(w, commands, answer) ==
    [w EXCEPT !.last_call.commands = @ \o commands,
              !.last_call.answers = Append(@, answer)]

Show(w, box) ==
    [w EXCEPT !.last_call.boxes = Append(@, box)]

\* a QComboBox: its items and its current text ("" when it has no item)
Combo(items, current) == [items |-> items, current |-> current]

\* QComboBox.setCurrentText of a combo that is not editable
setCurrentText(combo, text) ==
    IF \E i \in 1..Len(combo.items) : combo.items[i] = text
    THEN Combo(combo.items, text)
    ELSE combo

\* MainWindow.save_session_settings: session_settings.json is written with
\* the fields as they are.  The file is read at start-up only, so the model
\* keeps the fact that the handler wrote it, not its content.
save_session_settings(w) ==
    [w EXCEPT !.last_call.saved = TRUE]

\* MainWindow.update_config_combos
update_config_combos(w, dump_answer) ==
    LET r == get_rclone_configs(w.config_file, dump_answer)
        w1 == Issue(w, r.commands, dump_answer)
    IN  IF r.raised
        THEN Show(w1, MessageBox("critical", "Error",
                 <<"Failed to update config combos. Check the log file for details.">>))
        ELSE [w1 EXCEPT !.source_config_combo = Combo(<<"local">> \o r.value, "local"),
                        !.dest_config_combo = Combo(<<"local">> \o r.value, "local")]

\* MainWindow.select_config; file is what QFileDialog.getOpenFileName returns
select_config(w, file, dump_answer) ==
    LET w1 == [w EXCEPT !.config_file = file, !.last_call = Call("select_config")]
    IN  IF TruthyStr(file)
        THEN save_session_settings(update_config_combos(w1, dump_answer))
        ELSE w1

\* the value of a path in a dict of the listing (dicts keep insertion order)
HasPath(files, path) == \E i \in 1..Len(files) : files[i].Path = path

Lookup(files, path) == files[CHOOSE i \in 1..Len(files) : files[i].Path = path]

\* for item in items: files[item['Path']] = item
RECURSIVE dict_of(_, _, _)
dict_of(items, i, files) ==
    IF i > Len(items) THEN files
    ELSE IF HasPath(files, items[i].Path)
         THEN dict_of(items, i + 1,
                      [j \in 1..Len(files) |->
                          IF files[j].Path = items[i].Path THEN items[i]
                          ELSE files[j]])
         ELSE dict_of(items, i + 1, Append(files, items[i]))

\* the tree after an add_item call, with the call written down
Add(w, path, status, size) ==
    [w EXCEPT !.tree = add_item(w.tree, path, status, size),
              !.add_calls = Append(@, <<path, status, size>>)]

\* the loop over source_files.items() that passes every shared path as
\* Modified, whatever its ModTime
RECURSIVE source_loop_ignoring_modtime(_, _, _, _)
source_loop_ignoring_modtime(w, source_files, dest_files, i) ==
    IF i > Len(source_files) THEN w
    ELSE LET info == source_files[i]
         IN  IF ~HasPath(dest_files, info.Path)
             THEN source_loop_ignoring_modtime(Add(w, info.Path, "New", info.Size),
                              source_files, dest_files, i + 1)
             ELSE source_loop_ignoring_modtime(Add(w, info.Path, "Modified", info.Size),
                              source_files, dest_files, i + 1)

\* the loop over source_files.items() of compare_directories
RECURSIVE source_loop(_, _, _, _)
source_loop(w, source_files, dest_files, i) ==
    IF i > Len(source_files) THEN w
    ELSE LET info == source_files[i]
         IN  IF ~HasPath(dest_files, info.Path)
             THEN source_loop(Add(w, info.Path, "New", info.Size),
                              source_files, dest_files, i + 1)
             ELSE IF info.ModTime # Lookup(dest_files, info.Path).ModTime
                  THEN source_loop(Add(w, info.Path, "Modified", info.Size),
                                   source_files, dest_files, i + 1)
                  ELSE source_loop(w, source_files, dest_files, i + 1)

\* the loop over dest_files.items() that passes every path as Deleted
RECURSIVE dest_loop_deleting_all(_, _, _, _)
dest_loop_deleting_all(w, source_files, dest_files, i) ==
    IF i > Len(dest_files) THEN w
    ELSE dest_loop_deleting_all(Add(w, dest_files[i].Path, "Deleted", dest_files[i].Size),
                                source_files, dest_files, i + 1)

\* the loop over dest_files.items() of compare_directories
RECURSIVE dest_loop(_, _, _, _)
dest_loop(w, source_files, dest_files, i) ==
    IF i > Len(dest_files) THEN w
    ELSE LET info == dest_files[i]
         IN  IF ~HasPath(source_files, info.Path)
             THEN dest_loop(Add(w, info.Path, "Deleted", info.Size),
                            source_files, dest_files, i + 1)
             ELSE dest_loop(w, source_files, dest_files, i + 1)

\* the except clause of compare_directories with the message of
\* run_full_sync's: the exception is logged, not shown
compare_failed_generic(w, error) ==
    Show(w, MessageBox("critical", "Error",
            <<"An error occurred while comparing directories. Check the log file for details.">>))

\* the except clause of compare_directories
compare_failed(w, error) ==
    Show(w, MessageBox("critical", "Error",
            <<"An error occurred while comparing directories: ">> \o error
                \o <<"\n\nCheck the log file for details.">>))

\* the listing of one side in compare_directories
list_side(w, config, path, answer) ==
    IF config = "local"
    THEN run_rclone_lsjson(path, None, None, answer)
    ELSE run_rclone_lsjson(path, w.config_file, config, answer)

\* compare_directories from self.tree.clear() on
compare_from_clear(w, source_answer, dest_answer) ==
    LET w1  == [w EXCEPT !.tree = <<>>, !.add_calls = <<>>,
                         !.last_call.cleared = TRUE]
        src == list_side(w1, w1.source_config, w1.source_path, source_answer)
        w2  == Issue(w1, src.commands, source_answer)
    IN  IF src.raised THEN compare_failed(w2, src.error)
        ELSE
        LET dst == list_side(w2, w2.dest_config, w2.dest_path, dest_answer)
            w3  == Issue(w2, dst.commands, dest_answer)
        IN  IF dst.raised THEN compare_failed(w3, dst.error)
            ELSE
            LET source_files == dict_of(src.value, 1, <<>>)
                dest_files   == dict_of(dst.value, 1, <<>>)
                w4 == source_loop(w3, source_files, dest_files, 1)
                w5 == dest_loop(w4, source_files, dest_files, 1)
                w6 == [w5 EXCEPT !.tree = calculate_directory_sizes(w5.tree),
                                 !.last_call.aggregated = TRUE,
                                 !.compared_ok = @ \cup
                                     {c.args[1] : c \in {w3.last_call.commands[k] :
                                         k \in 1..Len(w3.last_call.commands)}}]
            IN  save_session_settings(w6)

\* MainWindow.compare_directories
compare_directories(w, source_answer, dest_answer) ==
    LET w0 == [w EXCEPT !.last_call = Call("compare_directories")]
    IN  IF ~TruthyStr(w0.config_file)
        THEN Show(w0, MessageBox("warning", "Error",
                      <<"Please select an rclone config file first.">>))
        ELSE
        LET w1 == [w0 EXCEPT
                      !.source_config = w0.source_config_combo.current,
                      !.dest_config = w0.dest_config_combo.current,
                      !.source_path = ensure_trailing_slash(w0.source_path_input),
                      !.dest_path = ensure_trailing_slash(w0.dest_path_input)]
        IN  IF ~TruthyText(w1.source_path) \/ ~TruthyText(w1.dest_path)
            THEN Show(w1, MessageBox("warning", "Error",
                          <<"Please select both source and destination paths.">>))
            ELSE compare_from_clear(w1, source_answer, dest_answer)

\* all([...]) of run_full_sync
sync_precondition(w) ==
    /\ TruthyStr(w.config_file)
    /\ TruthyStr(w.source_config)
    /\ TruthyStr(w.dest_config)
    /\ TruthyText(w.source_path)
    /\ TruthyText(w.dest_path)

\* the location run_full_sync passes for one side
sync_location(config, path) ==
    IF config = "local" THEN path ELSE <<config, ":">> \o path

\* MainWindow.run_full_sync; reply is the button of the confirmation box
run_full_sync(w, reply, answer) ==
    LET w0 == [w EXCEPT !.last_call = Call("run_full_sync")]
    IN  IF ~sync_precondition(w0)
        THEN Show(w0, MessageBox("warning", "Error",
                      <<"Please compare directories before running a full sync.">>))
        ELSE
        LET w1 == [w0 EXCEPT !.last_call.reply = reply]
        IN  IF reply # "Yes" THEN w1
            ELSE
            LET sync_command ==
                    Command("sync",
                            <<<<w1.config_file>>,
                              sync_location(w1.source_config, w1.source_path),
                              sync_location(w1.dest_config, w1.dest_path)>>)
                r  == run_rclone_command(sync_command, FALSE, answer)
                w2 == Issue(w1, r.commands, answer)
            IN  IF r.raised
                THEN Show(w2, MessageBox("critical", "Error",
                       <<"An error occurred during sync. Check the log file for details.">>))
                ELSE save_session_settings(
                       Show(w2, MessageBox("information", "Sync Complete",
                            <<"The sync operation has completed successfully.">>)))

\* MainWindow.load_session_settings, on the window __init__ has built; file
\* is the session_settings.json found: <<>> when there is none, else
\* <<settings>>
load_session_settings(w, file, dump_answer) ==
    IF file = <<>> THEN w
    ELSE
    LET settings == file[1]
        w1 == [w EXCEPT !.config_file = settings.config_file]
        w2 == IF TruthyStr(w1.config_file)
              THEN update_config_combos(w1, dump_answer)
              ELSE w1
        w3 == [w2 EXCEPT !.source_config = settings.source_config,
                         !.dest_config = settings.dest_config,
                         !.source_path = settings.source_path,
                         !.dest_path = settings.dest_path]
    IN  [w3 EXCEPT
            !.source_config_combo =
                setCurrentText(@, IF TruthyStr(w3.source_config)
                                  THEN w3.source_config ELSE "local"),
            !.dest_config_combo =
                setCurrentText(@, IF TruthyStr(w3.dest_config)
                                  THEN w3.dest_config ELSE "local"),
            !.source_path_input =
                IF TruthyText(w3.source_path) THEN w3.source_path ELSE <<>>,
            !.dest_path_input =
                IF TruthyText(w3.dest_path) THEN w3.dest_path ELSE <<>>]

\* MainWindow.__init__ up to load_session_settings
constructed ==
    [tree |-> <<>>, add_calls |-> <<>>, config_file |-> None,
     source_config |-> None, dest_config |-> None,
     source_path |-> NonePath, dest_path |-> NonePath,
     source_config_combo |-> Combo(<<>>, ""),
     dest_config_combo |-> Combo(<<>>, ""),
     source_path_input |-> <<>>, dest_path_input |-> <<>>,
     compared_ok |-> {}, last_call |-> Call("__init__")]

----------------------------------------------------------------------------
(* Answers of the collaborators *)

Ok(stdout) == [kind |-> "ok", stdout |-> stdout, stderr |-> ""]

Exit(stderr) == [kind |-> "exit", stdout |-> <<>>, stderr |-> stderr]

OsError(message) == [kind |-> "oserror", stdout |-> <<>>, stderr |-> message]

JsonError(message) == [kind |-> "json", stdout |-> <<>>, stderr |-> message]

\* an entry of "rclone lsjson": the fields compare_directories reads
Entry(path, size, modtime) == [Path |-> path, Size |-> size, ModTime |-> modtime]

\* "rclone config dump": the remotes of the config file, or a failure
DumpAnswers == {Ok(<<"remote">>), Exit("failed to load config file")}

\* "rclone sync"
SyncAnswers ==
    {Ok(<<>>), Exit("directory not found"), OsError("No such file: 'rclone'")}

\* "rclone lsjson", for the window as a whole (Spec)
WindowListingAnswers ==
    {Ok(<<>>), Ok(<<Entry(<<"d", "y">>, 20, "T1")>>),
     Exit("directory not found"), JsonError("Expecting value")}

\* the paths, sizes and times of the listings compared in SpecCompare: a
\* directory reported beside the file below it (d, d/y), a size below 1024
\* and one above
ComparePaths == {<<"x">>, <<"d">>, <<"d", "y">>}

CompareSizes == {20, 2048}

ModTimes == {"T1", "T2"}

CompareEntries ==
    {Entry(p, n, m) : p \in ComparePaths, n \in CompareSizes, m \in ModTimes}

\* the listings of at most n entries, no path twice, in any order
RECURSIVE ListingsUpTo(_)
ListingsUpTo(n) ==
    IF n = 0 THEN {<<>>}
    ELSE LET shorter == ListingsUpTo(n - 1)
         IN  shorter \cup
             UNION {{Append(l, x) : x \in {y \in CompareEntries : ~HasPath(l, y.Path)}} :
                       l \in shorter}

\* "rclone lsjson", for one comparison (SpecCompare)
CompareListingAnswers ==
    {Ok(l) : l \in ListingsUpTo(MaxEntries)}
        \cup {Exit("directory not found"), JsonError("Expecting value")}

\* the session_settings.json found at start-up: none, one written by
\* select_config before any comparison, one written after a comparison
StartFiles ==
    {<<>>,
     <<[config_file |-> "rclone.conf", source_config |-> None,
        dest_config |-> None, source_path |-> NonePath,
        dest_path |-> NonePath]>>,
     <<[config_file |-> "rclone.conf", source_config |-> "local",
        dest_config |-> "remote", source_path |-> <<"s", "/">>,
        dest_path |-> <<"s", "/">>]>>}

\* what QFileDialog.getOpenFileName returns: "" when the user cancels
ChosenFiles == {"", "rclone.conf"}

\* what the user types as source path or as destination path
PathTexts == {<<>>, <<"s", "/">>}

Replies == {"Yes", "No"}

----------------------------------------------------------------------------
(* The states of the variables a specification does not use *)

Is(w) ==
    /\ tree = w.tree
    /\ add_calls = w.add_calls
    /\ config_file = w.config_file
    /\ source_config = w.source_config
    /\ dest_config = w.dest_config
    /\ source_path = w.source_path
    /\ dest_path = w.dest_path
    /\ source_config_combo = w.source_config_combo
    /\ dest_config_combo = w.dest_config_combo
    /\ source_path_input = w.source_path_input
    /\ dest_path_input = w.dest_path_input
    /\ compared_ok = w.compared_ok
    /\ last_call = w.last_call

NoProvider ==
    /\ source_items = Ok(<<>>)
    /\ dest_items = Ok(<<>>)

NoValidation ==
    /\ v_config_file = None
    /\ v_config_name = "local"
    /\ v_store = Ok(<<>>)
    /\ v_return = <<>>

----------------------------------------------------------------------------
(* The window: start-up with or without a saved session, then the user's   *)
(* operations in any order.                                                *)

Init ==
    /\ \E file \in StartFiles, dump \in DumpAnswers :
          Is(load_session_settings(constructed, file, dump))
    /\ NoProvider
    /\ NoValidation

SelectConfig ==
    /\ \E file \in ChosenFiles, dump \in DumpAnswers :
          Becomes(select_config(W, file, dump))
    /\ UNCHANGED <<providerVars, validateVars>>

EditSourcePath ==
    /\ \E text \in PathTexts : source_path_input' = text
    /\ UNCHANGED <<treeVars, config_file, source_config, dest_config, source_path,
                   dest_path, source_config_combo, dest_config_combo,
                   dest_path_input, compared_ok, last_call,
                   providerVars, validateVars>>

EditDestPath ==
    /\ \E text \in PathTexts : dest_path_input' = text
    /\ UNCHANGED <<treeVars, config_file, source_config, dest_config, source_path,
                   dest_path, source_config_combo, dest_config_combo,
                   source_path_input, compared_ok, last_call,
                   providerVars, validateVars>>

ChooseSourceConfig ==
    /\ \E i \in 1..Len(source_config_combo.items) :
          source_config_combo' =
              Combo(source_config_combo.items, source_config_combo.items[i])
    /\ UNCHANGED <<treeVars, config_file, source_config, dest_config, source_path,
                   dest_path, dest_config_combo, source_path_input,
                   dest_path_input, compared_ok, last_call,
                   providerVars, validateVars>>

ChooseDestConfig ==
    /\ \E i \in 1..Len(dest_config_combo.items) :
          dest_config_combo' =
              Combo(dest_config_combo.items, dest_config_combo.items[i])
    /\ UNCHANGED <<treeVars, config_file, source_config, dest_config, source_path,
                   dest_path, source_config_combo, source_path_input,
                   dest_path_input, compared_ok, last_call,
                   providerVars, validateVars>>

CompareDirectories ==
    /\ \E source_answer \in WindowListingAnswers, dest_answer \in WindowListingAnswers :
          Becomes(compare_directories(W, source_answer, dest_answer))
    /\ UNCHANGED <<providerVars, validateVars>>

RunFullSync ==
    /\ \E reply \in Replies, answer \in SyncAnswers :
          Becomes(run_full_sync(W, reply, answer))
    /\ UNCHANGED <<providerVars, validateVars>>

Next ==
    \/ SelectConfig
    \/ EditSourcePath
    \/ EditDestPath
    \/ ChooseSourceConfig
    \/ ChooseDestConfig
    \/ CompareDirectories
    \/ RunFullSync

Spec == Init /\ [][Next]_vars

----------------------------------------------------------------------------
(* One comparison: the window as a saved session opens it (config file,    *)
(* local source s/, destination remote:d/), the answers of the listing     *)
(* provider drawn from the bounded listings, and compare_directories.      *)

InitCompare ==
    /\ Is(load_session_settings(
              constructed,
              <<[config_file |-> "rclone.conf", source_config |-> "local",
                 dest_config |-> "remote", source_path |-> <<"s", "/">>,
                 dest_path |-> <<"d", "/">>]>>,
              Ok(<<"remote">>)))
    /\ source_items \in CompareListingAnswers
    /\ dest_items \in CompareListingAnswers
    /\ NoValidation

CompareListed ==
    /\ Becomes(compare_directories(W, source_items, dest_items))
    /\ UNCHANGED <<providerVars, validateVars>>

NextCompare == CompareListed

SpecCompare == InitCompare /\ [][NextCompare]_vars

----------------------------------------------------------------------------
(* validate_rclone_config: its arguments and the answer of the config      *)
(* store drawn at the start, then the call.                                *)

\* the stdout of "rclone config show": nothing, a section with its type
\* declaration, the declaration alone, and three texts without it
ShowOutputs ==
    {<<>>,
     TypeDeclaration,
     <<"[", "r", "]", "\n">> \o TypeDeclaration \o <<" ", "s", "3">>,
     <<"t", "y", "p", "e", "=">>,
     <<"t", "y", "p", "e", " ">>,
     <<"[", "r", "]">>}

ShowAnswers ==
    {Ok(out) : out \in ShowOutputs}
        \cup {Exit("couldn't find remote"), OsError("No such file: 'rclone'")}

InitValidate ==
    /\ Is(constructed)
    /\ NoProvider
    /\ v_config_file \in {None, "", "rclone.conf"}
    /\ v_config_name \in {"local", "remote", "badremote"}
    /\ v_store \in ShowAnswers
    /\ v_return = <<>>

Validate ==
    /\ v_return' = <<validate_rclone_config(v_config_file, v_config_name, v_store)>>
    /\ UNCHANGED <<v_config_file, v_config_name, v_store, treeVars, windowVars,
                   providerVars>>

NextValidate == Validate

SpecValidate == InitValidate /\ [][NextValidate]_vars

----------------------------------------------------------------------------
(* The tree on its own: add_item and calculate_directory_sizes called in   *)
(* any order on one DeltaTreeWidget.                                       *)

InitTree ==
    /\ Is(constructed)
    /\ NoProvider
    /\ NoValidation

AddItem ==
    /\ Len(add_calls) < MaxItems
    /\ \E parts \in TreePaths, status \in TreeStatuses, size \in TreeSizes :
          /\ tree' = add_item(tree, parts, status, size)
          /\ add_calls' = Append(add_calls, <<parts, status, size>>)
    /\ UNCHANGED <<windowVars, providerVars, validateVars>>

CalculateDirectorySizes ==
    /\ tree' = calculate_directory_sizes(tree)
    /\ UNCHANGED <<add_calls, windowVars, providerVars, validateVars>>

NextTree == AddItem \/ CalculateDirectorySizes

SpecTree == InitTree /\ [][NextTree]_vars

----------------------------------------------------------------------------
(* Properties of the tree *)

\* the path of an item: the names from the root down to it
RECURSIVE PathOf(_, _)
PathOf(t, j) ==
    IF t[j].parent = 0 THEN <<t[j].name>>
    ELSE Append(PathOf(t, t[j].parent), t[j].name)

IsPrefix(p, q) == Len(p) <= Len(q) /\ SubSeq(q, 1, Len(p)) = p

\* the non-empty prefixes of the paths passed to add_item
CallPrefixes ==
    UNION {{SubSeq(add_calls[i][1], 1, n) : n \in 1..Len(add_calls[i][1])} :
              i \in 1..Len(add_calls)}

PairwiseDistinctPaths ==
    \A i, j \in 1..Len(add_calls) :
        i # j => add_calls[i][1] # add_calls[j][1]

\* no add_item call passes a path that an earlier call's path starts with
\* (the same path again, or a path after a path below it)
NoPathAfterOneBelowIt ==
    \A i, j \in 1..Len(add_calls) :
        i < j => ~IsPrefix(add_calls[j][1], add_calls[i][1])

NoTwoChildrenOfOneName ==
    \A i, j \in 1..Len(tree) :
        i # j => ~(tree[i].parent = tree[j].parent /\ tree[i].name = tree[j].name)

\* C9 as stated: after add_item calls with pairwise distinct paths, in any
\* order, no item has two children of the same name.
C9_DistinctPathsNoTwoChildrenOfOneName ==
    PairwiseDistinctPaths => NoTwoChildrenOfOneName

\* C9 amended: after add_item calls none of which passes a path that an
\* earlier call's path starts with, no item has two children of the same
\* name, and the tree holds exactly one item for every prefix of the
\* inserted paths (the missing intermediate directories were created, the
\* existing ones reused).
C9_PrefixesInsertedOnce ==
    NoPathAfterOneBelowIt =>
        /\ NoTwoChildrenOfOneName
        /\ {PathOf(tree, j) : j \in 1..Len(tree)} = CallPrefixes
        /\ Len(tree) = Cardinality(CallPrefixes)

\* C9 witness: a/b/c was inserted, then a/c: the second call found a.
C9_SharedPrefixInserted ==
    /\ Len(add_calls) = 2
    /\ add_calls[1][1] = <<"a", "b", "c">>
    /\ add_calls[2][1] = <<"a", "c">>
    /\ Len(tree) = 4

\* C10: calculate_directory_sizes run on a tree it has already run on
\* leaves the size of every item, directory or leaf, as the first run left it.
C10_CalculateIdempotent ==
    calculate_directory_sizes(calculate_directory_sizes(tree))
        = calculate_directory_sizes(tree)

\* C10 witness: a tree with a directory below a directory, both showing a
\* size, and a leaf of 1024 bytes or more.
C10_CalculatedNestedTree ==
    /\ tree = calculate_directory_sizes(tree)
    /\ \E i, j, k \in 1..Len(tree) :
          /\ tree[j].parent = i /\ tree[k].parent = j
          /\ tree[i].size # <<>> /\ tree[j].size # <<>>
          /\ tree[k].size[2] = 1

----------------------------------------------------------------------------
(* Properties of one comparison (SpecCompare) *)

\* compare_directories ran to its end on the two listings
Compared ==
    /\ last_call.handler = "compare_directories"
    /\ last_call.aggregated

\* the entry maps: the listings have no path twice, so the map of a listing
\* has its entries
SourceMap == source_items.stdout

DestMap == dest_items.stdout

InMap(map, p) == \E i \in 1..Len(map) : map[i].Path = p

EntryOf(map, p) == map[CHOOSE i \in 1..Len(map) : map[i].Path = p]

CallsFor(p) == {i \in 1..Len(add_calls) : add_calls[i][1] = p}

\* an item of the tree at path p shows this status and, as long as it has no
\* children, this size
ItemShows(p, status, size) ==
    \E j \in 1..Len(tree) :
        /\ PathOf(tree, j) = p
        /\ tree[j].status = status
        /\ childCount(tree, j) = 0 => tree[j].size = format_size(size * 100)

\* exactly one add_item call was made for p, with this status and size
InsertedOnceAs(p, status, size) ==
    /\ Cardinality(CallsFor(p)) = 1
    /\ \A i \in CallsFor(p) : add_calls[i] = <<p, status, size>>
    /\ ItemShows(p, status, size)

\* C1: every path of the source map is inserted once as New with the source
\* size when the destination map lacks it, once as Modified with the source
\* size when the destination map has it with another ModTime, and not at all
\* when the destination map has it with the same ModTime.
C1_SourcePathsClassified ==
    Compared =>
        \A p \in ComparePaths :
            InMap(SourceMap, p) =>
                IF ~InMap(DestMap, p)
                THEN InsertedOnceAs(p, "New", EntryOf(SourceMap, p).Size)
                ELSE IF EntryOf(SourceMap, p).ModTime # EntryOf(DestMap, p).ModTime
                     THEN InsertedOnceAs(p, "Modified", EntryOf(SourceMap, p).Size)
                     ELSE CallsFor(p) = {}

\* C1 witness: a comparison found one path modified, of another size in the
\* destination, and one path unchanged.
C1_ModifiedAndUnchanged ==
    /\ Compared
    /\ \E p, q \in ComparePaths :
          /\ InMap(SourceMap, p) /\ InMap(DestMap, p)
          /\ EntryOf(SourceMap, p).ModTime # EntryOf(DestMap, p).ModTime
          /\ EntryOf(SourceMap, p).Size # EntryOf(DestMap, p).Size
          /\ InMap(SourceMap, q) /\ InMap(DestMap, q)
          /\ EntryOf(SourceMap, q).ModTime = EntryOf(DestMap, q).ModTime
          /\ Len(add_calls) = 1

\* C2: every path of the destination map that the source map lacks is
\* inserted once as Deleted with the destination size, and no other path is
\* inserted as Deleted.
C2_DeletedExactlyDestOnly ==
    Compared =>
        /\ \A p \in ComparePaths :
              (InMap(DestMap, p) /\ ~InMap(SourceMap, p)) =>
                  InsertedOnceAs(p, "Deleted", EntryOf(DestMap, p).Size)
        /\ \A i \in 1..Len(add_calls) :
              add_calls[i][2] = "Deleted" =>
                  /\ InMap(DestMap, add_calls[i][1])
                  /\ ~InMap(SourceMap, add_calls[i][1])

\* C2 witness: a comparison found one path deleted and left another path of
\* the destination, which the source has too, alone.
C2_DeletedBesideShared ==
    /\ Compared
    /\ \E p, q \in ComparePaths :
          /\ InMap(DestMap, p) /\ ~InMap(SourceMap, p)
          /\ InMap(DestMap, q) /\ InMap(SourceMap, q)
          /\ EntryOf(DestMap, p).Size # EntryOf(DestMap, q).Size
          /\ \E i \in 1..Len(add_calls) : add_calls[i][2] = "Deleted"

\* the sum of the byte sizes of the calls in `calls`
RECURSIVE SumOfSizes(_)
SumOfSizes(calls) ==
    IF calls = {} THEN 0
    ELSE LET i == CHOOSE x \in calls : TRUE
         IN  add_calls[i][3] + SumOfSizes(calls \ {i})

\* the inserted leaves below the item j: the calls whose path is longer than
\* the item's and starts with it
LeavesBelow(j) ==
    {i \in 1..Len(add_calls) :
        /\ IsPrefix(PathOf(tree, j), add_calls[i][1])
        /\ add_calls[i][1] # PathOf(tree, j)}

\* C3 as stated: after a comparison every item with children shows the sum
\* of the byte sizes of the leaves inserted below it (in the form
\* format_size gives a number of bytes).
C3_DirectorySizeIsSumOfLeaves ==
    Compared =>
        \A j \in 1..Len(tree) :
            childCount(tree, j) > 0 =>
                tree[j].size = format_size(100 * SumOfSizes(LeavesBelow(j)))

\* C11 as stated: in the tree of a comparison an item carries a status iff
\* it has no children: an item with children has the empty status of an
\* implicitly created directory, and an item without children has the
\* status New, Modified or Deleted.
C11_StatusIffNoChildren ==
    Compared =>
        \A j \in 1..Len(tree) :
            IF childCount(tree, j) > 0
            THEN tree[j].status = ""
            ELSE tree[j].status \in {"New", "Modified", "Deleted"}

----------------------------------------------------------------------------
(* Properties of the window (Spec) *)

Failed(answer) == answer.kind # "ok"

\* the locations passed to the sync executor by the last call
SyncCommands ==
    {last_call.commands[i] : i \in
        {k \in 1..Len(last_call.commands) : last_call.commands[k].op = "sync"}}

\* C4 as stated: the sync executor is invoked only with a source and a
\* destination that were both the subject of a comparison that ran to its
\* end earlier.
C4_SyncOnlyOfComparedLocations ==
    \A c \in SyncCommands :
        /\ c.args[2] \in compared_ok
        /\ c.args[3] \in compared_ok

\* the fields run_full_sync tests, as they are in this state (run_full_sync
\* writes none of them, and a handler that does ends another call)
FieldsAllSet ==
    /\ config_file \notin {None, ""}
    /\ source_config \notin {None, ""}
    /\ dest_config \notin {None, ""}
    /\ source_path \notin {NonePath, <<>>}
    /\ dest_path \notin {NonePath, <<>>}

\* C5: a call of run_full_sync invokes the sync executor once when the
\* fields are all set and the user answers Yes, whatever the executor
\* answers, and not at all otherwise.
C5_SyncInvokedOnceIfConfirmed ==
    last_call.handler = "run_full_sync" =>
        /\ Len(last_call.commands) <= 1
        /\ \A i \in 1..Len(last_call.commands) : last_call.commands[i].op = "sync"
        /\ Len(last_call.commands) = 1 <=> (FieldsAllSet /\ last_call.reply = "Yes")
        /\ ~FieldsAllSet => last_call.reply = ""

\* C5 witness: the user confirmed, the executor was invoked and failed.
C5_ConfirmedSyncFailed ==
    /\ last_call.handler = "run_full_sync"
    /\ last_call.reply = "Yes"
    /\ Len(last_call.commands) = 1
    /\ Failed(last_call.answers[1])

\* a message box of the last call holds this text among its pieces
BoxShows(icon, piece) ==
    \E i \in 1..Len(last_call.boxes) :
        /\ last_call.boxes[i].icon = icon
        /\ \E k \in 1..Len(last_call.boxes[i].text) :
              last_call.boxes[i].text[k] = piece

\* C6 as stated: when the sync executor fails, run_full_sync shows an error
\* that holds the executor's diagnostic text.
C6_SyncFailureShowsDiagnostic ==
    (last_call.handler = "run_full_sync" /\ last_call.answers # <<>>
        /\ Failed(last_call.answers[1])) =>
            BoxShows("critical", last_call.answers[1].stderr)

\* a listing of the last comparison failed
ListingFailed ==
    /\ last_call.handler = "compare_directories"
    /\ \E i \in 1..Len(last_call.answers) : Failed(last_call.answers[i])

\* C8: when a listing of compare_directories fails, the tree is empty after
\* the call, no size was aggregated, nothing was inserted, and an error box
\* holds the diagnostic text of the listing provider.
C8_FailedListingAborts ==
    ListingFailed =>
        /\ tree = <<>>
        /\ add_calls = <<>>
        /\ ~last_call.aggregated
        /\ ~last_call.saved
        /\ Failed(last_call.answers[Len(last_call.answers)])
        /\ BoxShows("critical", last_call.answers[Len(last_call.answers)].stderr)

\* C8 witness: after a comparison that ran to its end, another one got the
\* source listing and failed on the destination listing.
C8_DestListingFailedAfterGoodRun ==
    /\ ListingFailed
    /\ Len(last_call.answers) = 2
    /\ compared_ok # {}

\* C12 as stated: a call of compare_directories made with a config file
\* selected while the source path input or the destination path input is
\* empty shows the warning "Please select both source and destination
\* paths.", invokes no listing, leaves the tree as it was and saves no
\* session settings.
C12_EmptyPathInputWarns ==
    [][(/\ last_call' # last_call
        /\ last_call'.handler = "compare_directories"
        /\ TruthyStr(config_file)
        /\ (source_path_input = <<>> \/ dest_path_input = <<>>))
       => /\ BoxShows("warning", "Please select both source and destination paths.")'
          /\ last_call'.commands = <<>>
          /\ ~last_call'.cleared
          /\ ~last_call'.saved
          /\ tree' = tree]_vars

----------------------------------------------------------------------------
(* Properties of validate_rclone_config (SpecValidate) *)

\* the stdout texts that hold "type ="
OutputsWithType ==
    {TypeDeclaration,
     <<"[", "r", "]", "\n", "t", "y", "p", "e", " ", "=", " ", "s", "3">>}

\* the describe query fails: Popen raises (a None argument, no rclone) or
\* rclone exits with an error
DescribeFails == v_config_file = None \/ v_store.kind # "ok"

\* C7: validate_rclone_config never raises and returns a boolean: True for
\* "local" without a query, False for another name when the query fails,
\* and otherwise whether the description holds a type declaration.
C7_ValidateTotalClassifier ==
    v_return # <<>> =>
        LET r == v_return[1]
        IN  /\ ~r.raised
            /\ r.value \in BOOLEAN
            /\ IF v_config_name = "local"
               THEN r.value = TRUE /\ r.commands = <<>>
               ELSE IF DescribeFails
                    THEN r.value = FALSE
                    ELSE r.value = (v_store.stdout \in OutputsWithType)

\* C7 witness: the store could not be queried for a remote, and the call
\* returned False.
C7_FailedQueryReturnedFalse ==
    /\ v_return # <<>>
    /\ v_config_name = "badremote"
    /\ v_store.kind = "exit"
    /\ v_return[1].value = FALSE

====
